---- MODULE Spec2Model ----
(***************************************************************************)
(* Model of the /stream handler of src/main.py: the pre-check, the retry   *)
(* loop of try_extract_stream, the format selection, and the fallback      *)
(* search over ALTERNATIVE_PLATFORMS.                                      *)
(*                                                                         *)
(* Strings are sequences of tokens; "x in s" is contiguous-subsequence     *)
(* containment and s.lower() maps every token to its lower-case form.      *)
(* Python's None is the empty sequence <<>> and a present value x is <<x>>.*)
(***************************************************************************)
EXTENDS Integers, Sequences, FiniteSets, TLC

VARIABLES
  pc,          \* position of the request: idle, attempt, sleep, metadata, done
  url,         \* the url parameter of stream
  is_youtube,  \* stream's is_youtube
  altIdx,      \* 0: the requested URL; k: the k-th of ALTERNATIVE_PLATFORMS
  run,         \* arguments of the try_extract_stream call in progress
  attempt,     \* loop variable of try_extract_stream
  last_error,  \* try_extract_stream's last_error
  info,        \* what extract_info returned last
  best,        \* the format picked by the last format selection
  metadata,    \* stream's metadata
  result,      \* the value stream returns
  status,      \* HTTP status of the response, 0 while the request runs
  runCalls,    \* extract_info invocations of the try_extract_stream call
  totalCalls,  \* extract_info invocations of the request
  metaCalls,   \* invocations of extract_metadata_from_youtube
  primaryEnd,  \* exit taken by try_extract_stream on the requested URL
  runEnd       \* exit taken by the last try_extract_stream call of the request

vars == <<pc, url, is_youtube, altIdx, run, attempt, last_error, info, best,
          metadata, result, status, runCalls, totalCalls, metaCalls,
          primaryEnd, runEnd>>

(***************************************************************************)
(* Bounds                                                                  *)
(***************************************************************************)
\* longest format list the capability returns
MaxFormats == 2

(***************************************************************************)
(* Strings                                                                 *)
(***************************************************************************)
None == <<>>

Some(x) == <<x>>

\* str.lower(), token by token
LowerTok(t) ==
  CASE t = "WWW."               -> "www."
    [] t = "YOUTUBE.COM"        -> "youtube.com"
    [] t = ".M3U8"              -> ".m3u8"
    [] t = "BOT"                -> "bot"
    [] t = "ERROR: "            -> "error: "
    [] t = "Sign in to confirm" -> "sign in to confirm"
    [] t = "Unsupported URL"    -> "unsupported url"
    [] t = "Connection reset"   -> "connection reset"
    [] t = "Automated "         -> "automated "
    [] t = "Song"               -> "song"
    [] t = "Artist"             -> "artist"
    [] t = "Youtube"            -> "youtube"
    [] t = "Soundcloud"         -> "soundcloud"
    [] t = "Facebook"           -> "facebook"
    [] t = "Unknown"            -> "unknown"
    [] OTHER                    -> t

Lower(s) == [i \in DOMAIN s |-> LowerTok(s[i])]

\* Python's "sub in s"
Contains(s, sub) ==
  \E i \in 1..(Len(s) - Len(sub) + 1) : SubSeq(s, i, i + Len(sub) - 1) = sub

\* Python's s.endswith(sub)
EndsWith(s, sub) ==
  /\ Len(sub) <= Len(s)
  /\ SubSeq(s, Len(s) - Len(sub) + 1, Len(s)) = sub

\* Python's s.replace(' ', '+')
ReplaceSpace(s) == [i \in DOMAIN s |-> IF s[i] = " " THEN "+" ELSE s[i]]

(***************************************************************************)
(* Platform classification                                                 *)
(***************************************************************************)
MUSIC_PLATFORMS ==
  {"youtube", "youtubemusic", "soundcloud", "bandcamp", "spotify",
   "audiomack", "mixcloud", "applemusic", "deezer", "tidal", "generic"}

\* allow-listed domains of recognized music sources
MusicDomains ==
  {<<"youtube.com">>, <<"youtu.be">>, <<"music.", "youtube.com">>,
   <<"soundcloud.com">>, <<"bandcamp.com">>, <<"audiomack.com">>,
   <<"spotify.com">>, <<"mixcloud.com">>}

\* allow-listed audio file extensions
AudioExtensions == {<<".mp3">>, <<".m4a">>, <<".ogg">>, <<".wav">>, <<".flac">>}

\* the url.lower() of is_music_platform
UrlLower(u) == Lower(u)

DomainMatch(url_lower) == \E d \in MusicDomains : Contains(url_lower, d)

ExtensionMatch(url_lower) == \E e \in AudioExtensions : EndsWith(url_lower, e)

\* HLS/DASH audio streams
StreamHint(url_lower) ==
  Contains(url_lower, <<".m3u8">>) \/ Contains(url_lower, <<"stream">>)

\* the extractor identifier against the platform-name allow-list
ExtractorKeyMatch(extractor_key) == LowerTok(extractor_key) \in MUSIC_PLATFORMS

\* src/main.py keeps the head of is_music_platform (url_lower, line 185) and
\* its tail (the HLS/DASH check and "return False", lines 222-226); lines
\* 186-221 hold a fragment of an earlier stream handler where the checks on
\* the extractor key, the domains and the file extensions belong. Those
\* checks follow section 4.1 of the specification:
\* extractor_key = None: the pre-check on the URL;
\* extractor_key given: the post-check on the extractor identifier
is_music_platform(u, extractor_key) ==
  IF extractor_key # None
    THEN ExtractorKeyMatch(extractor_key[1])
    ELSE \/ DomainMatch(UrlLower(u))
         \/ ExtensionMatch(UrlLower(u))
         \/ StreamHint(UrlLower(u))

(***************************************************************************)
(* Inputs: request URLs, capability failures, capability results           *)
(***************************************************************************)
Urls ==
  {<<"https://", "www.", "youtube.com", "/watch">>,
   <<"https://", "youtu.be", "/a">>,
   <<"https://", "WWW.", "YOUTUBE.COM", "/watch">>,
   <<"https://", "soundcloud.com", "/a">>,
   <<"https://", "example.com", "/a", ".mp3">>,
   <<"https://", "example.com", "/x", ".M3U8", "?t=1">>,
   <<"https://", "example.com", "/page">>,
   <<"https://", "facebook.com", "/v">>}

\* str(e) of the exceptions extract_info raises
Errors ==
  {<<"ERROR: ", "Sign in to confirm", " you are not a ", "bot">>,
   <<"ERROR: ", "Automated ", "BOT", " traffic">>,
   <<"ERROR: ", "Unsupported URL", ": x">>,
   <<"ERROR: ", "Connection reset">>}

\* abr / tbr of a format that has none
NoRate == -1

\* format entries: acodec/vcodec "" stands for a missing or None codec,
\* url "" for a missing url
FormatPool ==
  {[format_id |-> "251", acodec |-> "opus", vcodec |-> "none", ext |-> "webm",
    abr |-> 70, tbr |-> NoRate, url |-> "u251"],
   [format_id |-> "140", acodec |-> "aac", vcodec |-> "", ext |-> "m4a",
    abr |-> 128, tbr |-> 130, url |-> "u140"],
   [format_id |-> "43", acodec |-> "vorbis", vcodec |-> "vp8", ext |-> "webm",
    abr |-> 192, tbr |-> 900, url |-> "u43"],
   [format_id |-> "137", acodec |-> "none", vcodec |-> "h264", ext |-> "mp4",
    abr |-> NoRate, tbr |-> 800, url |-> "u137"],
   [format_id |-> "hls", acodec |-> "mp4a", vcodec |-> "none", ext |-> "mp4",
    abr |-> 160, tbr |-> NoRate, url |-> "uhls"],
   [format_id |-> "328", acodec |-> "ec-3", vcodec |-> "none", ext |-> "mp3",
    abr |-> NoRate, tbr |-> 128, url |-> ""]}

FormatLists == UNION {[1..n -> FormatPool] : n \in 0..MaxFormats}

ExtractorKeys == {Some("Youtube"), Some("Facebook"), None}

\* the info dict extract_info returns; with entries = "first" the other
\* fields are those of info["entries"][0]
Infos ==
  [entries : {"absent"}, extractor_key : ExtractorKeys,
   url : {None, Some("direct")}, ext : {"unknown"}, formats : FormatLists]
  \cup
  [entries : {"first"}, extractor_key : {Some("Soundcloud")},
   url : {None, Some("direct")}, ext : {"unknown"},
   formats : {f \in FormatLists : Len(f) <= 1}]
  \cup
  [entries : {"empty"}, extractor_key : {None}, url : {None},
   ext : {"unknown"}, formats : {<<>>}]

\* what extract_info returns when it does not raise
Returns == {None} \cup {Some(i) : i \in Infos}

\* the returns with at most one format entry: the outcomes of a call that
\* the control flow of stream can tell apart
ShortReturns == {ret \in Returns : ret = None \/ Len(ret[1].formats) <= 1}

\* what extract_metadata_from_youtube returns
Metadatas ==
  {None,
   Some([search_query |-> <<"Song", " ", "Artist">>,
         original_title |-> <<"Song", " [Official Video]">>])}

(***************************************************************************)
(* Format selection (try_extract_stream, the branch without a direct URL)  *)
(***************************************************************************)
PreferredExts == {"m4a", "mp3", "opus", "ogg", "webm", "wav", "aac", "flac"}

\* "acodec == 'none' or not acodec"
NoAudio(f) == f.acodec = "none" \/ f.acodec = ""

\* "vcodec and vcodec != 'none'"
HasVideo(f) == f.vcodec # "" /\ f.vcodec # "none"

StrictPassNoVideoCheck(formats) ==
  SelectSeq(formats, LAMBDA f : ~NoAudio(f) /\ f.ext \in PreferredExts)

\* the loop that fills audio_only_formats
StrictPass(formats) ==
  SelectSeq(formats,
            LAMBDA f : ~NoAudio(f) /\ ~HasVideo(f) /\ f.ext \in PreferredExts)

FallbackPassAnyAudio(formats) ==
  SelectSeq(formats, LAMBDA f : f.acodec \notin {"none", ""})

\* "Fallback: any format with audio and no video"
FallbackPass(formats) ==
  SelectSeq(formats,
            LAMBDA f : f.acodec \notin {"none", ""} /\ f.vcodec \in {"none", ""})

audio_only_formats(formats) ==
  IF StrictPass(formats) = <<>> THEN FallbackPass(formats)
                                ELSE StrictPass(formats)

\* key of max(): f.get("abr") or f.get("tbr") or 0
BitrateKey(f) ==
  IF f.abr # NoRate /\ f.abr # 0 THEN f.abr
  ELSE IF f.tbr # NoRate /\ f.tbr # 0 THEN f.tbr
  ELSE 0

MaxByBitrateLast(candidates) ==
  LET i == CHOOSE i \in 1..Len(candidates) :
             /\ \A j \in 1..Len(candidates) :
                  BitrateKey(candidates[j]) <= BitrateKey(candidates[i])
             /\ \A j \in (i + 1)..Len(candidates) :
                  BitrateKey(candidates[j]) < BitrateKey(candidates[i])
  IN  candidates[i]

\* max(candidates, key=...): the first element with the greatest key
MaxByBitrate(candidates) ==
  LET i == CHOOSE i \in 1..Len(candidates) :
             /\ \A j \in 1..Len(candidates) :
                  BitrateKey(candidates[j]) <= BitrateKey(candidates[i])
             /\ \A j \in 1..(i - 1) :
                  BitrateKey(candidates[j]) < BitrateKey(candidates[i])
  IN  candidates[i]

ExtractorKeyOfDefaultGeneric(i) ==
  IF i.extractor_key = None THEN "generic" ELSE i.extractor_key[1]

\* info.get("extractor_key", "Unknown")
ExtractorKeyOf(i) ==
  IF i.extractor_key = None THEN "Unknown" ELSE i.extractor_key[1]

\* the dict try_extract_stream returns
MakeResult(stream_url, i, b) ==
  [stream_url |-> stream_url,
   platform |-> ExtractorKeyOf(i),
   audio_format |-> IF b # None THEN b[1].ext ELSE i.ext,
   is_audio_only |-> TRUE,
   fallback_from_youtube |-> FALSE,
   original_query |-> None]

NoStreamUrlUnchecked(stream_url) == FALSE

\* the second "if not stream_url", on the url of the selected format
NoStreamUrl(stream_url) == stream_url = ""

\* the body of one attempt after extract_info returned ret:
\* value is the returned value, best the selected format, end the exit taken
ProcessInfo(u, ret) ==
  IF ret = None THEN [value |-> None, best |-> None, end |-> "noinfo"]
  ELSE LET i == ret[1] IN
    IF i.entries = "empty"
      THEN [value |-> None, best |-> None, end |-> "noentries"]
    ELSE IF ~is_music_platform(u, Some(ExtractorKeyOf(i)))
      THEN [value |-> None, best |-> None, end |-> "postcheck"]
    ELSE IF i.url # None
      THEN [value |-> Some(MakeResult(i.url[1], i, None)), best |-> None,
            end |-> "ok"]
    ELSE IF audio_only_formats(i.formats) = <<>>
      THEN [value |-> None, best |-> None, end |-> "noformat"]
    ELSE LET b == MaxByBitrate(audio_only_formats(i.formats)) IN
      IF NoStreamUrl(b.url)
        THEN [value |-> None, best |-> Some(b), end |-> "nourl"]
        ELSE [value |-> Some(MakeResult(b.url, i, Some(b))), best |-> Some(b),
              end |-> "ok"]

(***************************************************************************)
(* try_extract_stream and stream                                           *)
(***************************************************************************)
\* default of the max_retries parameter; no caller passes another value
max_retries == 2

ALTERNATIVE_PLATFORMS_Reordered == <<"audiomack", "soundcloud", "bandcamp">>

ALTERNATIVE_PLATFORMS == <<"soundcloud", "audiomack", "bandcamp">>

\* the alternative_url stream builds for a platform
AlternativeUrl(platform_name, search_query) ==
  CASE platform_name = "soundcloud" -> <<"scsearch1:">> \o search_query
    [] platform_name = "audiomack" ->
         <<"https://", "audiomack.com", "/search?q=">> \o ReplaceSpace(search_query)
    [] platform_name = "bandcamp" ->
         <<"https://", "bandcamp.com", "/search?q=">> \o ReplaceSpace(search_query)

\* stream's test of the URL shape
IsYoutubeUrl(u) ==
  \/ Contains(u, <<"youtube.com">>)
  \/ Contains(u, <<"youtu.be">>)
  \/ Contains(u, <<"music.", "youtube.com">>)

PreCheckSkipped(u) == FALSE

\* stream's pre-check
PreCheckRejects(u) == ~is_music_platform(u, None)

BotDetectedCaseSensitive(yt, err) ==
  yt /\ (Contains(err, <<"Sign in to confirm">>) \/ Contains(err, <<"bot">>))

\* the except branch's test for YouTube bot detection
BotDetected(yt, err) ==
  yt /\ (Contains(err, <<"Sign in to confirm">>) \/ Contains(Lower(err), <<"bot">>))

InRangeOffByOne(a) == a <= max_retries

\* range(max_retries)
InRange(a) == a < max_retries

SleepBeforeRetryNever(a) == FALSE

\* "if attempt < max_retries - 1": sleep, then continue
SleepBeforeRetry(a) == a < max_retries - 1

\* "if result is None" after the call on a YouTube URL
TriggersFallback(r, why) == r = None

\* status of a failed call on a non-YouTube URL
DirectFailureStatus(why, err) == 500

Init ==
  /\ pc = "idle"
  /\ url = None
  /\ is_youtube = FALSE
  /\ altIdx = 0
  /\ run = [url |-> None, is_youtube |-> FALSE, platform_name |-> None]
  /\ attempt = 0
  /\ last_error = None
  /\ info = None
  /\ best = None
  /\ metadata = None
  /\ result = None
  /\ status = 0
  /\ runCalls = 0
  /\ totalCalls = 0
  /\ metaCalls = 0
  /\ primaryEnd = "none"
  /\ runEnd = "none"

\* a call try_extract_stream(u, is_youtube=yt, platform_name=name) begins
StartRun(k, u, yt, name) ==
  /\ altIdx' = k
  /\ run' = [url |-> u, is_youtube |-> yt, platform_name |-> name]
  /\ attempt' = 0
  /\ last_error' = None
  /\ info' = None
  /\ best' = None
  /\ runCalls' = 0
  /\ pc' = "attempt"

\* stream ends with an HTTP status and a body; the locals of the last
\* try_extract_stream call are kept for inspection
Respond(code, r, err, inf, b, n, why) ==
  /\ status' = code
  /\ result' = r
  /\ pc' = "done"
  /\ last_error' = err
  /\ info' = inf
  /\ best' = b
  /\ runCalls' = n
  /\ runEnd' = why
  /\ UNCHANGED <<altIdx, run, attempt>>

\* stream's loop over ALTERNATIVE_PLATFORMS reaches platform k
TryAlternative(k, md) ==
  /\ StartRun(k, AlternativeUrl(ALTERNATIVE_PLATFORMS[k], md.search_query),
              FALSE, Some(ALTERNATIVE_PLATFORMS[k]))
  /\ UNCHANGED <<status, result, runEnd>>

HasNextPlatformFirstOnly(k) == k < 1

\* the for loop over ALTERNATIVE_PLATFORMS has a platform left after the k-th
HasNextPlatform(k) == k < Len(ALTERNATIVE_PLATFORMS)

MarkFallbackQueryOnly(r, md) ==
  [r EXCEPT !.original_query = Some(md.original_title)]

\* the result of an alternative platform as stream returns it
MarkFallback(r, md) ==
  [r EXCEPT !.fallback_from_youtube = TRUE,
            !.original_query = Some(md.original_title)]

\* try_extract_stream returns r to stream, which goes on to its next call
\* or to its response; the locals of the returned call stay visible until
\* the next call begins
Return(r, err, inf, b, n, why) ==
  /\ primaryEnd' = IF altIdx = 0 THEN why ELSE primaryEnd
  /\ IF altIdx = 0 /\ is_youtube
       THEN IF TriggersFallback(r, why)
              THEN /\ pc' = "metadata"
                   /\ last_error' = err
                   /\ info' = inf
                   /\ best' = b
                   /\ runCalls' = n
                   /\ UNCHANGED <<altIdx, run, attempt, status, result, runEnd>>
              ELSE Respond(200, r, err, inf, b, n, why)
     ELSE IF altIdx = 0
       THEN IF r = None
              THEN Respond(DirectFailureStatus(why, err), None, err, inf, b, n, why)
              ELSE Respond(200, r, err, inf, b, n, why)
     ELSE IF r # None
       THEN Respond(200, Some(MarkFallback(r[1], metadata[1])), err, inf, b, n, why)
     ELSE IF HasNextPlatform(altIdx)
       THEN TryAlternative(altIdx + 1, metadata[1])
       ELSE Respond(503, None, err, inf, b, n, why)

\* GET /stream?url=u up to the first extract_info call
stream(u) ==
  /\ pc = "idle"
  /\ url' = Some(u)
  /\ IF PreCheckRejects(u)
       THEN /\ Respond(400, None, None, None, None, 0, "rejected")
            /\ UNCHANGED is_youtube
       ELSE /\ is_youtube' = IsYoutubeUrl(u)
            /\ StartRun(0, u, IsYoutubeUrl(u), None)
            /\ UNCHANGED <<status, result, runEnd>>
  /\ UNCHANGED <<metadata, totalCalls, metaCalls, primaryEnd>>

\* extract_info raises an exception whose message is err
AttemptRaises(err) ==
  /\ pc = "attempt"
  /\ totalCalls' = totalCalls + 1
  /\ IF BotDetected(run.is_youtube, err)
       THEN Return(None, Some(err), info, best, runCalls + 1, "blocked")
     ELSE IF SleepBeforeRetry(attempt)
       THEN /\ pc' = "sleep"
            /\ last_error' = Some(err)
            /\ runCalls' = runCalls + 1
            /\ UNCHANGED <<altIdx, run, attempt, status, result, info, best,
                           primaryEnd, runEnd>>
     ELSE IF InRange(attempt + 1)
       THEN /\ attempt' = attempt + 1
            /\ last_error' = Some(err)
            /\ runCalls' = runCalls + 1
            /\ UNCHANGED <<pc, altIdx, run, status, result, info, best,
                           primaryEnd, runEnd>>
       ELSE Return(None, Some(err), info, best, runCalls + 1, "exhausted")
  /\ UNCHANGED <<url, is_youtube, metadata, metaCalls>>

\* time.sleep(1); continue
BackoffSleep ==
  /\ pc = "sleep"
  /\ IF InRange(attempt + 1)
       THEN /\ attempt' = attempt + 1
            /\ pc' = "attempt"
            /\ UNCHANGED <<altIdx, run, last_error, status, result, info, best,
                           runCalls, primaryEnd, runEnd>>
       ELSE Return(None, last_error, info, best, runCalls, "exhausted")
  /\ UNCHANGED <<url, is_youtube, metadata, totalCalls, metaCalls>>

\* extract_info returns ret and the attempt runs to its return statement
AttemptReturns(ret) ==
  /\ pc = "attempt"
  /\ totalCalls' = totalCalls + 1
  /\ Return(ProcessInfo(run.url, ret).value, last_error, ret,
            ProcessInfo(run.url, ret).best, runCalls + 1,
            ProcessInfo(run.url, ret).end)
  /\ UNCHANGED <<url, is_youtube, metadata, metaCalls>>

MetadataFailureStatusInternal(md) == 500

\* status when extract_metadata_from_youtube returned no metadata
MetadataFailureStatus(md) == 503

\* metadata = extract_metadata_from_youtube(url) returns md
ExtractMetadata(md) ==
  /\ pc = "metadata"
  /\ metaCalls' = metaCalls + 1
  /\ metadata' = md
  /\ IF md # None
       THEN TryAlternative(1, md[1])
       ELSE Respond(MetadataFailureStatus(md), None, None, None, None, 0, runEnd)
  /\ UNCHANGED <<url, is_youtube, totalCalls, primaryEnd>>

Next ==
  \/ \E u \in Urls : stream(u)
  \/ \E err \in Errors : AttemptRaises(err)
  \/ BackoffSleep
  \/ \E ret \in Returns : AttemptReturns(ret)
  \/ \E md \in Metadatas : ExtractMetadata(md)

Spec == Init /\ [][Next]_vars

\* the steps of a request in progress: each is a call that returns or
\* raises (extract_info runs under a socket timeout, time.sleep(1) returns)
Handle ==
  \/ \E err \in Errors : AttemptRaises(err)
  \/ BackoffSleep
  \/ \E ret \in ShortReturns : AttemptReturns(ret)
  \/ \E md \in Metadatas : ExtractMetadata(md)

FairNext ==
  \/ \E u \in Urls : stream(u)
  \/ Handle

\* a request in progress is not left waiting forever
FairSpec == Init /\ [][FairNext]_vars /\ WF_vars(Handle)

TypeOK ==
  /\ pc \in {"idle", "attempt", "sleep", "metadata", "done"}
  /\ status \in {0, 200, 400, 500, 503}
  /\ altIdx \in 0..3
  /\ attempt \in 0..max_retries

(***************************************************************************)
(* Properties                                                              *)
(***************************************************************************)
\* the error message carries a bot-detection / sign-in signature
HasBotSignature(err) ==
  Contains(err, <<"Sign in to confirm">>) \/ Contains(Lower(err), <<"bot">>)

\* exit taken by the try_extract_stream call whose locals are visible
LastEnd == IF pc = "metadata" THEN primaryEnd ELSE runEnd

\* C1: a request whose URL the pre-check rejects has ended with status 400
\* and extract_info (and the metadata extraction) was never invoked for it.
C1_RejectedEnds400WithoutExtraction ==
  (url # None /\ ~is_music_platform(url[1], None))
    => (pc = "done" /\ status = 400 /\ totalCalls = 0 /\ metaCalls = 0)

C1_Witness ==
  /\ pc = "done"
  /\ status = 400
  /\ url = Some(<<"https://", "facebook.com", "/v">>)

\* C2: one call of try_extract_stream invokes extract_info at most
\* max_retries times, whatever the URL and whatever extract_info answers.
C2_AtMostMaxRetriesInvocations == runCalls <= max_retries

C2_Witness == pc = "done" /\ runCalls = max_retries /\ runEnd = "exhausted"

\* C3: a failure whose message contains "Unsupported URL" halts the
\* resolution after exactly one invocation: no retry, no fallback search,
\* and the request has ended with status 400.
C3_UnsupportedUrlHaltsWith400 ==
  (last_error # None /\ Contains(last_error[1], <<"Unsupported URL">>))
    => (pc = "done" /\ status = 400 /\ runCalls = 1 /\ metaCalls = 0)

\* C4: the fallback search (the metadata extraction) is never started for
\* a primary-platform URL whose attempts were exhausted by failures without
\* a bot-detection signature, or whose extraction succeeded but had no
\* usable audio format.
C4_NoFallbackUnlessBlocked ==
  (pc = "metadata" \/ metaCalls > 0) => primaryEnd \notin {"exhausted", "noformat"}

C6_BlockedNonPrimaryEnds403 ==
  (pc = "done" /\ altIdx = 0 /\ ~is_youtube /\ runEnd = "exhausted"
     /\ last_error # None /\ HasBotSignature(last_error[1]))
    => status = 403

\* the format has a real audio codec
RealAudio(f) == f.acodec \notin {"", "none"}

\* the format's video codec is absent or "none"
NoVideo(f) == f.vcodec \in {"", "none"}

\* the audio-only candidates of a format list, in list order
AudioOnlyCandidates(fs) == SelectSeq(fs, LAMBDA f : RealAudio(f) /\ NoVideo(f))

\* the audio-only candidates with one of the preferred extensions
PreferredCandidates(fs) ==
  SelectSeq(fs, LAMBDA f : RealAudio(f) /\ NoVideo(f)
                           /\ f.ext \in {"m4a", "mp3", "opus", "ogg", "webm",
                                         "wav", "aac", "flac"})

\* averageBitrate, else totalBitrate, else 0
EffectiveRate(f) == IF f.abr > 0 THEN f.abr ELSE IF f.tbr > 0 THEN f.tbr ELSE 0

\* b is the first element of cands with the greatest Rate
IsFirstMax(b, cands, Rate(_)) ==
  \E i \in 1..Len(cands) :
    /\ cands[i] = b
    /\ \A j \in 1..Len(cands) : Rate(cands[j]) <= Rate(b)
    /\ \A j \in 1..(i - 1) : Rate(cands[j]) < Rate(b)

\* the last attempt passed the post-check without a direct URL, so that
\* format selection ran on info's format list
SelectionRan ==
  /\ pc \in {"metadata", "done"}
  /\ info # None
  /\ info[1].url = None
  /\ LastEnd \in {"noformat", "nourl", "ok"}

\* C7 as stated: when the format list has an audio-only candidate, the
\* selected format has no video codec and is the first of ALL audio-only
\* candidates with the greatest bitrate.
C7_SelectsMaxRateOfAllAudioOnly ==
  (SelectionRan /\ AudioOnlyCandidates(info[1].formats) # <<>>)
    => /\ best # None
       /\ NoVideo(best[1])
       /\ IsFirstMax(best[1], AudioOnlyCandidates(info[1].formats), EffectiveRate)

\* C7 as amended: when the format list has an audio-only candidate, the
\* selected format has no video codec and is the first one with the greatest
\* bitrate (abr, else tbr, else 0) among the audio-only candidates with a
\* preferred extension if there is one, among all audio-only candidates
\* otherwise.
C7_SelectsMaxRateOfPreferredAudioOnly ==
  (SelectionRan /\ AudioOnlyCandidates(info[1].formats) # <<>>)
    => /\ best # None
       /\ NoVideo(best[1])
       /\ IsFirstMax(best[1],
                     IF PreferredCandidates(info[1].formats) # <<>>
                       THEN PreferredCandidates(info[1].formats)
                       ELSE AudioOnlyCandidates(info[1].formats),
                     EffectiveRate)

C7_Witness ==
  /\ SelectionRan
  /\ Len(info[1].formats) = 2
  /\ info[1].formats[1].format_id = "hls"
  /\ info[1].formats[2].format_id = "251"
  /\ best # None
  /\ best[1].format_id = "251"

\* C8 as stated: a format list without audio-only candidate but with a
\* candidate that has a real audio codec makes the selection return one of
\* the candidates with a real audio codec.
C8_RelaxesToAudioWithVideo ==
  (SelectionRan /\ AudioOnlyCandidates(info[1].formats) = <<>>
     /\ \E k \in 1..Len(info[1].formats) : RealAudio(info[1].formats[k]))
    => (best # None /\ RealAudio(best[1]))

\* C8 as amended: a format list without audio-only candidate makes the
\* selection report that nothing is playable, also when it has candidates
\* with audio and video; the selection only relaxes the extension: without
\* audio-only candidate of a preferred extension it returns an audio-only
\* candidate of another extension.
C8_RelaxesExtensionOnly ==
  /\ (SelectionRan /\ AudioOnlyCandidates(info[1].formats) = <<>>)
       => (best = None /\ LastEnd = "noformat")
  /\ (SelectionRan /\ AudioOnlyCandidates(info[1].formats) # <<>>
        /\ PreferredCandidates(info[1].formats) = <<>>)
       => /\ best # None
          /\ RealAudio(best[1]) /\ NoVideo(best[1])
          /\ \E k \in 1..Len(info[1].formats) : info[1].formats[k] = best[1]

C8_Witness ==
  /\ SelectionRan
  /\ Len(info[1].formats) = 1
  /\ info[1].formats[1].format_id = "43"
  /\ best = None
  /\ LastEnd = "noformat"

\* C9: when the extraction on the requested URL succeeds without direct URL
\* and every format has audio codec "none", the request has ended with
\* status 404.
C9_NoAudioEnds404 ==
  (SelectionRan /\ altIdx = 0 /\ LastEnd = "noformat"
     /\ Len(info[1].formats) > 0
     /\ \A k \in 1..Len(info[1].formats) : info[1].formats[k].acodec = "none")
    => (pc = "done" /\ status = 404)

\* C10 as stated: a returned stream_url is the url of the selected format,
\* which is audio-only, or the direct URL of an info without format list.
C10_DirectUrlOnlyWithoutFormats ==
  (pc = "done" /\ status = 200)
    => \/ /\ best # None
          /\ result[1].stream_url = best[1].url
          /\ RealAudio(best[1]) /\ NoVideo(best[1])
       \/ /\ info[1].url # None
          /\ result[1].stream_url = info[1].url[1]
          /\ info[1].formats = <<>>

\* C10 as amended: a returned stream_url is the direct URL of the info
\* whenever the info has one, with or without format list, and no format is
\* selected then; otherwise it is the url of the selected format, which is
\* an audio-only format of the list.
C10_DirectUrlElseAudioOnlyFormat ==
  (pc = "done" /\ status = 200)
    => \/ /\ info[1].url # None
          /\ result[1].stream_url = info[1].url[1]
          /\ best = None
       \/ /\ info[1].url = None
          /\ best # None
          /\ result[1].stream_url = best[1].url
          /\ RealAudio(best[1]) /\ NoVideo(best[1])
          /\ \E k \in 1..Len(info[1].formats) : info[1].formats[k] = best[1]

C10_Witness ==
  /\ pc = "done"
  /\ status = 200
  /\ info[1].url # None
  /\ Len(info[1].formats) > 0
  /\ result[1].stream_url = info[1].url[1]

\* C11: the alternate platforms are tried in the order soundcloud,
\* audiomack, bandcamp: the platform in turn changes only by one step, at a
\* moment when the request holds no result, to the next platform of that
\* order; a result of an alternate ends the request at that alternate, and
\* nothing is invoked after the end.
C11_AlternatesInFixedOrder ==
  [][/\ (altIdx' # altIdx)
          => /\ altIdx' = altIdx + 1
             /\ pc' = "attempt"
             /\ result' = None /\ status' = 0
             /\ run'.platform_name =
                  Some(<<"soundcloud", "audiomack", "bandcamp">>[altIdx'])
     /\ (altIdx >= 1 /\ status' = 200) => (pc' = "done" /\ altIdx' = altIdx)
     /\ (pc = "done") => UNCHANGED vars]_vars

C11_Witness ==
  /\ pc = "done"
  /\ status = 200
  /\ altIdx = 3
  /\ run.platform_name = Some("bandcamp")
  /\ result # None

\* C12: a returned result that came from an alternate platform has
\* fallback_from_youtube set and carries the original title recovered from
\* the requested video as original_query; a returned result that came from
\* the requested URL itself has the flag unset and no original_query.
C12_FallbackResultsAreMarked ==
  (pc = "done" /\ status = 200)
    => /\ result # None
       /\ IF altIdx >= 1
            THEN /\ result[1].fallback_from_youtube = TRUE
                 /\ metadata # None
                 /\ result[1].original_query = Some(metadata[1].original_title)
            ELSE /\ result[1].fallback_from_youtube = FALSE
                 /\ result[1].original_query = None

C12_Witness ==
  /\ pc = "done"
  /\ status = 200
  /\ altIdx = 2
  /\ result # None
  /\ result[1].fallback_from_youtube = TRUE
  /\ result[1].original_query = Some(<<"Song", " [Official Video]">>)

\* C13: once the requested YouTube URL was blocked and metadata was
\* recovered, the request ends with 200 or 503, and with 503 exactly when
\* the third alternate platform has been tried and no alternate gave a
\* result; a request never ends without a result before the last alternate,
\* whether the earlier alternates returned nothing or raised.
C13_ServiceUnavailableIffAllAlternatesFailed ==
  (pc = "done" /\ metadata # None)
    => /\ status \in {200, 503}
       /\ (status = 503) <=> (altIdx = 3 /\ result = None)
       /\ (result = None) => (altIdx = 3 /\ runEnd # "none")
       /\ (status = 200) <=> (result # None /\ altIdx \in 1..3)

C13_Witness ==
  /\ pc = "done"
  /\ status = 503
  /\ primaryEnd = "blocked"
  /\ metadata # None
  /\ altIdx = 3
  /\ runEnd = "exhausted"
  /\ last_error # None

\* C14: when the metadata extraction that follows a blocked requested URL
\* returns None, the request is over at once with 503: no alternate
\* platform is tried, no further extraction is made and no result is given.
C14_MetadataFailureAbortsFallback ==
  (metaCalls > 0 /\ metadata = None)
    => /\ pc = "done"
       /\ status = 503
       /\ altIdx = 0
       /\ result = None
       /\ run.platform_name = None
       /\ totalCalls <= max_retries

C14_Witness ==
  /\ metaCalls = 1
  /\ metadata = None
  /\ primaryEnd = "blocked"
  /\ pc = "done"
  /\ status = 503
  /\ altIdx = 0

RetryStep ==
  /\ (/\ pc = "attempt" /\ altIdx = 0 /\ ~run.is_youtube
       /\ attempt + 1 < max_retries
       /\ last_error' # None)
       => /\ pc' = "sleep"
          /\ run' = run /\ attempt' = attempt
          /\ status' = 0 /\ result' = None
  /\ (pc = "sleep")
       => /\ pc' = "attempt"
          /\ run' = run /\ attempt' = attempt + 1
          /\ attempt' < max_retries
          /\ totalCalls' = totalCalls /\ runCalls' = runCalls
  /\ (pc' = "done" /\ altIdx' = 0 /\ ~is_youtube' /\ runEnd' = "exhausted")
       => /\ runCalls' = max_retries
          /\ totalCalls' = max_retries
          /\ status' = 500 /\ result' = None

\* C16: on a requested URL that is not a YouTube URL, an attempt that
\* raises while attempts remain goes to the backoff sleep of the same call;
\* the sleep is followed by the next attempt of that call on the same URL,
\* with no capability invocation in between; a call whose every attempt
\* raised has invoked the capability max_retries times and ends the request
\* with 500.
C16_TransientFailureRetriedThen500 ==
  /\ [][RetryStep]_vars
  /\ (pc = "sleep") ~> (pc = "attempt")

C16_Witness ==
  /\ pc = "done"
  /\ url = Some(<<"https://", "soundcloud.com", "/a">>)
  /\ altIdx = 0
  /\ runEnd = "exhausted"
  /\ last_error = Some(<<"ERROR: ", "Connection reset">>)
  /\ runCalls = max_retries
  /\ status = 500

\* C19: a call on an alternate platform runs with an attempt budget
\* strictly smaller than the budget of the call on the requested YouTube
\* URL: it never invokes the capability as often as that budget allows.
C19_AlternateBudgetIsReduced ==
  (altIdx >= 1) => (runCalls < max_retries /\ attempt + 1 < max_retries)

\* the request is over with one outcome: a result with 200, or one error
\* status without a result; before the end there is neither
OneOutcome ==
  /\ (pc = "done") => /\ status \in {200, 400, 500, 503}
                      /\ (status = 200) <=> (result # None)
  /\ (pc # "done") => (status = 0 /\ result = None)

\* C20: every request comes to its end with exactly one outcome, which
\* then stays, after at most 8 stream extractions (max_retries for the
\* requested URL and for each of the three alternate platforms) and at most
\* one metadata extraction.
C20_TerminatesWithinEightExtractions ==
  /\ [](OneOutcome /\ totalCalls <= 8 /\ metaCalls <= 1)
  /\ [][(pc = "done") => UNCHANGED <<pc, status, result, totalCalls, metaCalls>>]_vars
  /\ (pc # "idle") ~> (pc = "done")

C20_Witness ==
  /\ pc = "done"
  /\ status = 503
  /\ altIdx = 3
  /\ totalCalls = 8
  /\ metaCalls = 1

\* the URL names a YouTube domain, in whatever case it is written
PrimaryDomain(u) ==
  \/ Contains(Lower(u), <<"youtube.com">>)
  \/ Contains(Lower(u), <<"youtu.be">>)

\* C22: a requested URL that the pre-check accepted and that names a
\* YouTube domain, in whatever case, is handled as a YouTube URL: the call
\* on it is made with is_youtube set, so that bot detection and the fallback
\* apply to it.
C22_AcceptedPrimaryDomainHandledAsPrimary ==
  (/\ pc # "idle" /\ url # None
   /\ ~PreCheckRejects(url[1])
   /\ PrimaryDomain(url[1]))
    => /\ is_youtube
       /\ (altIdx = 0) => run.is_youtube

\* C23: a request that ended with 200 has a result whose stream_url is not
\* empty: it is the direct url the capability gave or the url of the
\* selected format, on the requested URL and on every alternate platform.
C23_SuccessCarriesStreamUrl ==
  (pc = "done" /\ status = 200)
    => /\ result # None
       /\ result[1].stream_url # ""
       /\ info # None
       /\ IF info[1].url # None
            THEN result[1].stream_url = info[1].url[1]
            ELSE best # None /\ result[1].stream_url = best[1].url

C23_Witness ==
  /\ pc = "done"
  /\ status = 200
  /\ altIdx >= 1
  /\ result # None
  /\ info # None
  /\ info[1].url = None
  /\ \E k \in DOMAIN info[1].formats : info[1].formats[k].url = ""
  /\ best # None
  /\ result[1].stream_url = best[1].url

====
